---- MODULE Spec2Model ----
(***************************************************************************)
(* SSH Monitor Dashboard (src/app.py): the log parser parse_ssh_log, the   *)
(* loader load_data over the persisted store datasetssh.csv, and the       *)
(* aggregation functions calculate_statistics, get_top_ips and             *)
(* get_temporal_evolution.                                                 *)
(*                                                                         *)
(* Text is modelled at the level of atoms: an atom is a maximal run of     *)
(* non-blank characters, a line is a sequence of atoms separated by single *)
(* blanks, with optional leading / trailing white space.  What the regular *)
(* expressions of the source see inside an atom (its lower-case form, the  *)
(* substrings it starts with, ends with or contains, the dotted quad in    *)
(* it) is given by the tables Fold, StartsWith, EndsWith, Contains, IpIn,  *)
(* LeadWord and UserSepIn below.                                           *)
(***************************************************************************)
EXTENDS Integers, Sequences, FiniteSets, TLC

VARIABLES
    uploaded_file, \* the file held by the st.file_uploader widget, if any
    log_content,   \* the text handed to parse_ssh_log, as its sequence of lines
    df_parsed,     \* the EventSet parse_ssh_log returned
    csv,           \* the persisted store datasetssh.csv
    cache,         \* the st.cache_data entry of load_data
    df,            \* the value load_data returned
    result,        \* the value the last aggregation call returned, or the
                   \* message the upload handler showed
    selection,     \* the values of the filter widgets of the sidebar
    df_filtered,   \* the EventSet the filters let through
    page,          \* what the part of the run after load_data came to
    noneIsNA,      \* the pandas build: read_csv reads the text None as NaN
                   \* (pandas 2.0 on) or as the text None (before)
    pc             \* where the run is

vars == <<uploaded_file, log_content, df_parsed, csv, cache, df, result,
          selection, df_filtered, page, noneIsNA, pc>>

(***************************************************************************)
(* Atoms.                                                                  *)
(***************************************************************************)

\* str.lower() / re.IGNORECASE on one atom
Fold(a) ==
    CASE a = "POSSIBLE" -> "possible"
      [] a = "BREAK-IN" -> "break-in"
      [] a = "ATTEMPT!" -> "attempt!"
      [] a = "SSHD[9]:" -> "sshd[9]:"
      [] a = "Failed" -> "failed"
      [] a = "Invalid" -> "invalid"
      [] a = "Connection" -> "connection"
      [] a = "Too" -> "too"
      [] a = "PAM" -> "pam"
      [] a = "Received" -> "received"
      [] a = "Accepted" -> "accepted"
      [] a = "Jun" -> "jun"
      [] a = "Feb" -> "feb"
      [] a = "Foo" -> "foo"
      [] a = "CRON[7]:" -> "cron[7]:"
      [] a = "Server" -> "server"
      [] a = "None" -> "none"
      [] a = "NA" -> "na"
      [] OTHER -> a

\* the (lower-case) atom a starts with the text w
StartsWith(a, w) ==
    \/ a = w
    \/ <<a, w>> \in { <<"attempt!", "attempt">>, <<"failure;", "failure">>,
                      <<"failures", "failure">>, <<"failures;", "failures">>,
                      <<"failures;", "failure">>, <<"retries;", "retries">> }

\* the (lower-case) atom a ends with the text w
EndsWith(a, w) ==
    \/ a = w
    \/ <<a, w>> \in { <<"ruser=", "user=">>, <<"[failed", "failed">> }

\* the (lower-case) atom a contains the text w
Contains(a, w) ==
    \/ StartsWith(a, w)
    \/ EndsWith(a, w)
    \/ <<a, w>> \in { <<"sshd[123]:", "sshd">>, <<"sshd[124]:", "sshd">>,
                      <<"sshd[9]:", "sshd">>, <<"sshd:", "sshd">>,
                      <<"pam_unix(sshd:auth):", "sshd">>,
                      <<"service(sshd)", "sshd">>,
                      <<"user=root", "root">>, <<"root]", "root">> }

\* \w+ matches the whole atom
IsWord(a) ==
    a \in { "admin", "root", "null", "unknown", "from", "for", "user", "invalid",
            "password", "host", "port", "by", "5", "22", "ssh2", "times",
            "failed", "Failed", "message", "repeated", "more", "many",
            "authentication", "failures", "None", "NA" }

\* \d+ matches the whole atom
IsDigits(a) == a \in { "5", "22", "14", "29", "4" }

\* the leading \w+ run of the atom, "" when it starts with another character
LeadWord(a) ==
    CASE IsWord(a) -> a
      [] a = "rhost=10.0.0.5" -> "rhost"
      [] a = "10.0.0.5" -> "10"
      [] a = "10.0.0.9" -> "10"
      [] a = "10.0.0.5:" -> "10"
      [] a = "0.0.0.0" -> "0"
      [] a = "user=root" -> "user"
      [] a = "ruser=" -> "ruser"
      [] a = "failure;" -> "failure"
      [] a = "failures;" -> "failures"
      [] a = "12:00:01" -> "12"
      [] a = "root]" -> "root"
      [] OTHER -> ""

\* user[=: ]+(\w+) inside one atom: the capture, "" when it does not match there
UserSepIn(a) ==
    CASE a = "user=root" -> "root"
      [] OTHER -> ""

\* the atom ends with user followed by zero or more of = and :
UserSepEnd(a) == a \in { "user", "user=", "ruser=" }

\* the first \d{1,3}\.\d{1,3}\.\d{1,3}\.\d{1,3} inside the atom, "" when none
IpIn(a) ==
    CASE a = "10.0.0.5" -> "10.0.0.5"
      [] a = "10.0.0.9" -> "10.0.0.9"
      [] a = "10.0.0.5:" -> "10.0.0.5"
      [] a = "rhost=10.0.0.5" -> "10.0.0.5"
      [] a = "0.0.0.0" -> "0.0.0.0"
      [] OTHER -> ""

\* [A-Za-z]{3}, \d{1,2} and \d{2}:\d{2}:\d{2} on a whole atom
IsAlpha3(a) == a \in { "Jun", "Feb", "Foo", "PAM", "Too", "for" }
IsDay(a) == a \in { "14", "29", "4", "5", "22" }
IsClock(a) == a \in { "12:00:01", "12:00:02", "10:15:00", "10:45:00", "11:05:00",
                      "25:00:00" }

(***************************************************************************)
(* Regular expressions over atoms.  A pattern is a sequence of elements    *)
(* [k, w]: "lit" the atom is w, "suf" the atom ends with w (the match may  *)
(* start inside an atom), "pre" the atom starts with w (the match may end  *)
(* inside one), "sub" the atom contains w, "word" (\w+) and "num" (\d+)    *)
(* the whole atom, "gap" (dot star) any number of atoms.  Every search of   *)
(* the source that uses these patterns passes re.IGNORECASE, so atoms are  *)
(* folded and the pattern words are written in lower case.                 *)
(***************************************************************************)
El(k, w) == [k |-> k, w |-> w]

ElemMatch(e, a) ==
    CASE e.k = "lit" -> a = e.w
      [] e.k = "suf" -> EndsWith(a, e.w)
      [] e.k = "pre" -> StartsWith(a, e.w)
      [] e.k = "sub" -> Contains(a, e.w)
      [] e.k = "word" -> IsWord(a)
      [] e.k = "num" -> IsDigits(a)
      [] OTHER -> FALSE

RECURSIVE MatchFrom(_, _, _, _)
MatchFrom(pat, j, toks, i) ==
    IF j > Len(pat) THEN TRUE
    ELSE IF pat[j].k = "gap"
         THEN \E i2 \in i..(Len(toks) + 1) : MatchFrom(pat, j + 1, toks, i2)
    ELSE IF i > Len(toks) THEN FALSE
    ELSE ElemMatch(pat[j], Fold(toks[i])) /\ MatchFrom(pat, j + 1, toks, i + 1)

\* re.search(pattern, line, re.IGNORECASE) is not None
Search(pat, toks) == \E i \in 1..Len(toks) : MatchFrom(pat, 1, toks, i)

\* the start of the leftmost match
MatchStart(pat, toks) ==
    CHOOSE i \in 1..Len(toks) :
        /\ MatchFrom(pat, 1, toks, i)
        /\ \A i2 \in 1..(i - 1) : ~MatchFrom(pat, 1, toks, i2)

\* the index of the capturing element (\w+) of a pattern
CaptureIndex(pat) == CHOOSE j \in 1..Len(pat) : pat[j].k = "word"

\* re.search(...).group(1): the captured text, in its original letter case
Group1(pat, toks) == toks[MatchStart(pat, toks) + CaptureIndex(pat) - 1]

(***************************************************************************)
(* parse_ssh_log                                                           *)
(***************************************************************************)
PamAuthFailure ==
    << El("suf", "pam_unix(sshd:auth):"), El("lit", "authentication"),
       El("pre", "failure") >>

\* the dict patterns, in insertion order (the order the for loop visits it)
patterns == <<
    [id |-> "E27", pat |-> << El("suf", "possible"), El("lit", "break-in"),
                              El("pre", "attempt") >>],
    [id |-> "E13", pat |-> << El("suf", "invalid"), El("lit", "user"),
                              El("word", ""), El("pre", "from") >>],
    [id |-> "E12", pat |-> << El("suf", "input_userauth_request:"),
                              El("lit", "invalid"), El("pre", "user") >>],
    [id |-> "E21", pat |-> << El("suf", "pam_unix(sshd:auth):"), El("lit", "check"),
                              El("lit", "pass;"), El("lit", "user"),
                              El("pre", "unknown") >>],
    [id |-> "E19", pat |-> PamAuthFailure],
    [id |-> "E20", pat |-> PamAuthFailure \o << El("gap", ""), El("sub", "root") >>],
    [id |-> "E10", pat |-> << El("suf", "failed"), El("lit", "password"),
                              El("lit", "for"), El("lit", "invalid"),
                              El("pre", "user") >>],
    [id |-> "E9",  pat |-> << El("suf", "failed"), El("lit", "password"),
                              El("lit", "for"), El("pre", "root") >>],
    [id |-> "E2",  pat |-> << El("suf", "connection"), El("lit", "closed"),
                              El("pre", "by") >>],
    [id |-> "E5",  pat |-> << El("suf", "too"), El("lit", "many"),
                              El("lit", "authentication"), El("pre", "failures") >>],
    [id |-> "E17", pat |-> << El("suf", "pam"), El("num", ""), El("lit", "more"),
                              El("lit", "authentication"), El("pre", "failures") >>],
    [id |-> "E18", pat |-> << El("suf", "pam"), El("lit", "service(sshd)"),
                              El("lit", "ignoring"), El("lit", "max"),
                              El("pre", "retries") >>],
    [id |-> "E24", pat |-> << El("suf", "received"), El("lit", "disconnect"),
                              El("pre", "from") >>],
    [id |-> "E14", pat |-> << El("suf", "message"), El("pre", "repeated") >>] >>

\* user_patterns, without its fourth entry user[=: ]+(\w+) (UserSep below)
user_patterns == <<
    << El("suf", "invalid"), El("lit", "user"), El("word", ""), El("pre", "from") >>,
    << El("suf", "failed"), El("lit", "password"), El("lit", "for"),
       El("lit", "invalid"), El("lit", "user"), El("word", ""), El("pre", "from") >>,
    << El("suf", "failed"), El("lit", "password"), El("lit", "for"),
       El("word", ""), El("pre", "from") >>,
    << >>,
    << El("suf", "accepted"), El("lit", "password"), El("lit", "for"),
       El("word", ""), El("pre", "from") >> >>

\* user[=: ]+(\w+) matches at atom i: inside it, or from its end into the next
UserSepAt(toks, i) ==
    \/ UserSepIn(Fold(toks[i])) # ""
    \/ /\ UserSepEnd(Fold(toks[i]))
       /\ i < Len(toks)
       /\ LeadWord(toks[i + 1]) # ""

\* the capture of the leftmost match of user[=: ]+(\w+), "" when none
UserSep(toks) ==
    IF \E i \in 1..Len(toks) : UserSepAt(toks, i)
    THEN LET i == CHOOSE k \in 1..Len(toks) :
                      UserSepAt(toks, k) /\ \A k2 \in 1..(k - 1) : ~UserSepAt(toks, k2)
         IN IF UserSepIn(Fold(toks[i])) # "" THEN UserSepIn(toks[i])
            ELSE LeadWord(toks[i + 1])
    ELSE ""

\* the capture of user pattern k on the line, "" when it does not match
UserCapture(k, toks) ==
    IF k = 4 THEN UserSep(toks)
    ELSE IF Search(user_patterns[k], toks) THEN Group1(user_patterns[k], toks)
    ELSE ""

\* lines 70-75: the first pattern that matches decides, E0 when none does
RECURSIVE ClassifyFrom(_, _)
ClassifyFrom(k, toks) ==
    IF k > Len(patterns) THEN "E0"
    ELSE IF Search(patterns[k].pat, toks) THEN patterns[k].id
    ELSE ClassifyFrom(k + 1, toks)

\* the loop of lines 72-75 without its break: the last pattern that matches
\* decides
RECURSIVE ClassifyLast(_, _, _)
ClassifyLast(k, toks, found) ==
    IF k > Len(patterns) THEN found
    ELSE ClassifyLast(k + 1, toks,
                      IF Search(patterns[k].pat, toks) THEN patterns[k].id ELSE found)

event_id_no_break(toks) == ClassifyLast(1, toks, "E0")

event_id(toks) == ClassifyFrom(1, toks)

\* source_ip taking the last dotted quad of the line, not the first
source_ip_last(toks) ==
    IF \E i \in 1..Len(toks) : IpIn(toks[i]) # ""
    THEN IpIn(toks[CHOOSE i \in 1..Len(toks) :
                       IpIn(toks[i]) # "" /\ \A k \in (i + 1)..Len(toks) : IpIn(toks[k]) = ""])
    ELSE "None"

\* lines 77-79: the first dotted quad of the line
source_ip(toks) ==
    IF \E i \in 1..Len(toks) : IpIn(toks[i]) # ""
    THEN IpIn(toks[CHOOSE i \in 1..Len(toks) :
                       IpIn(toks[i]) # "" /\ \A k \in 1..(i - 1) : IpIn(toks[k]) = ""])
    ELSE "None"

\* lines 81-87: the capture of the first user pattern that matches
RECURSIVE UserFrom(_, _)
UserFrom(k, toks) ==
    IF k > Len(user_patterns) THEN "None"
    ELSE IF UserCapture(k, toks) # "" THEN UserCapture(k, toks)
    ELSE UserFrom(k + 1, toks)

user(toks) == UserFrom(1, toks)

\* lines 66-68: ^([A-Za-z]{3}\s+\d{1,2}\s+\d{2}:\d{2}:\d{2}), anchored at the
\* first character of the line as split gave it
timestamp(ln) ==
    IF /\ ~ln.lead
       /\ Len(ln.toks) >= 3
       /\ IsAlpha3(ln.toks[1])
       /\ IsDay(ln.toks[2])
       /\ IsClock(ln.toks[3])
    THEN SubSeq(ln.toks, 1, 3)
    ELSE << "None" >>

\* Skipped looking for the marker in the line as it is, not in line.lower()
Skipped_case_sensitive(ln) ==
    \/ ln.toks = << >>
    \/ ~\E i \in 1..Len(ln.toks) : Contains(ln.toks[i], "sshd")

\* line 63: not line.strip() or 'sshd' not in line.lower()
Skipped(ln) ==
    \/ ln.toks = << >>
    \/ ~\E i \in 1..Len(ln.toks) : Contains(Fold(ln.toks[i]), "sshd")

\* line.strip(): the line without its leading and trailing white space
strip(ln) == [lead |-> FALSE, toks |-> ln.toks, trail |-> FALSE]

\* lines 89-95: the record appended for a line that is not skipped
ParseLine(ln) ==
    [ Timestamp   |-> timestamp(ln),
      EventId     |-> event_id(ln.toks),
      SourceIP    |-> source_ip(ln.toks),
      User        |-> user(ln.toks),
      Raw_Message |-> strip(ln) ]

RECURSIVE parsed_data(_)
parsed_data(lines) ==
    IF lines = << >> THEN << >>
    ELSE IF Skipped(Head(lines)) THEN parsed_data(Tail(lines))
    ELSE << ParseLine(Head(lines)) >> \o parsed_data(Tail(lines))

\* pd.DataFrame(list of dicts): the columns come from the dicts, so an empty
\* list gives a frame with no columns at all
DataFrame(rows) ==
    [kind |-> "frame", cols |-> rows # << >>, rows |-> rows,
     index |-> [i \in 1..Len(rows) |-> i]]

\* log_content.split('\n') is the sequence of lines itself
parse_ssh_log(content) == DataFrame(parsed_data(content))

(***************************************************************************)
(* The persisted store and load_data.  A stored row holds the cells as     *)
(* to_csv wrote them: Timestamp is a text (a sequence of atoms),           *)
(* Raw_Message a line, EventId, SourceIP and User are single atoms.        *)
(***************************************************************************)

\* the float NaN read_csv puts in place of a missing value
NaN == "<NaN>"

\* the datetime NaT
NaT == [nat |-> TRUE, year |-> 0, month |-> 0, day |-> 0,
        hour |-> 0, minute |-> 0, second |-> 0]

\* df_parsed.to_csv('datasetssh.csv', index=False): the header and one row per Event,
\* every cell written as its text
to_csv(frame) == [exists |-> TRUE, rows |-> frame.rows]

\* the texts read_csv takes for a missing value (its default na_values)
NaStrings ==
    { "", "#N/A", "#N/A N/A", "#NA", "-1.#IND", "-1.#QNAN", "-NaN", "-nan",
      "1.#IND", "1.#QNAN", "<NA>", "N/A", "NA", "NULL", "NaN", "n/a", "nan",
      "null" }
    \cup (IF noneIsNA THEN { "None" } ELSE { })

ReadCell(c) == IF c \in NaStrings THEN NaN ELSE c

ReadText(t) ==
    IF t = << >> \/ (Len(t) = 1 /\ t[1] \in NaStrings) THEN << NaN >> ELSE t

\* pd.read_csv('datasetssh.csv'): the rows with their missing values as NaN
read_csv(file) ==
    [ i \in 1..Len(file.rows) |->
        [ Timestamp   |-> ReadText(file.rows[i].Timestamp),
          EventId     |-> ReadCell(file.rows[i].EventId),
          SourceIP    |-> ReadCell(file.rows[i].SourceIP),
          User        |-> ReadCell(file.rows[i].User),
          Raw_Message |-> [file.rows[i].Raw_Message EXCEPT
                              !.toks = ReadText(file.rows[i].Raw_Message.toks)] ] ]

\* %b: the month of an abbreviated month name (any letter case), 0 when none
MonthNumber(a) ==
    CASE Fold(a) = "jan" -> 1  [] Fold(a) = "feb" -> 2  [] Fold(a) = "mar" -> 3
      [] Fold(a) = "apr" -> 4  [] Fold(a) = "may" -> 5  [] Fold(a) = "jun" -> 6
      [] Fold(a) = "jul" -> 7  [] Fold(a) = "aug" -> 8  [] Fold(a) = "sep" -> 9
      [] Fold(a) = "oct" -> 10 [] Fold(a) = "nov" -> 11 [] Fold(a) = "dec" -> 12
      [] OTHER -> 0

\* %d: the number a day atom spells, 0 when it spells none
DayNumber(a) ==
    CASE a = "4" -> 4 [] a = "5" -> 5 [] a = "14" -> 14
      [] a = "22" -> 22 [] a = "29" -> 29
      [] OTHER -> 0

\* %H:%M:%S: the hour, minute and second a clock atom spells
ClockOf(a) ==
    CASE a = "12:00:01" -> <<12, 0, 1>>
      [] a = "12:00:02" -> <<12, 0, 2>>
      [] a = "10:15:00" -> <<10, 15, 0>>
      [] a = "10:45:00" -> <<10, 45, 0>>
      [] a = "11:05:00" -> <<11, 5, 0>>
      [] a = "25:00:00" -> <<25, 0, 0>>
      [] OTHER -> <<99, 99, 99>>

IsLeap(y) == (y % 4 = 0 /\ y % 100 # 0) \/ y % 400 = 0

DaysInMonth(y, m) ==
    IF m = 2 THEN (IF IsLeap(y) THEN 29 ELSE 28)
    ELSE IF m \in {4, 6, 9, 11} THEN 30 ELSE 31

\* the year strptime gives a date whose format names none
DefaultYear == 1900

\* line 114: the year given to every timestamp
ReferenceYear == 2024

\* the text is a date of the format '%b %d %H:%M:%S' (in the default year)
Strptime_ok(t) ==
    /\ Len(t) = 3
    /\ MonthNumber(t[1]) # 0
    /\ DayNumber(t[2]) \in 1..DaysInMonth(DefaultYear, MonthNumber(t[1]))
    /\ ClockOf(t[3])[1] <= 23
    /\ ClockOf(t[3])[2] <= 59
    /\ ClockOf(t[3])[3] <= 61

\* line 111, one cell: pd.to_datetime(..., format='%b %d %H:%M:%S'); a missing
\* value gives NaT
to_datetime(t) ==
    IF t = << NaN >> THEN NaT
    ELSE [nat |-> FALSE, year |-> DefaultYear, month |-> MonthNumber(t[1]),
          day |-> DayNumber(t[2]), hour |-> ClockOf(t[3])[1],
          minute |-> ClockOf(t[3])[2], second |-> ClockOf(t[3])[3]]

\* line 114, one cell: x.replace(year=2024); NaT.replace gives NaT
replace_year(x) == IF x.nat THEN NaT ELSE [x EXCEPT !.year = ReferenceYear]

\* the days of the year y before its month m
RECURSIVE DaysBefore(_, _)
DaysBefore(y, m) ==
    IF m <= 1 THEN 0 ELSE DaysBefore(y, m - 1) + DaysInMonth(y, m - 1)

\* the seconds from the start of its year to the timestamp x (not NaT)
Seconds(x) ==
    (((DaysBefore(x.year, x.month) + x.day - 1) * 24 + x.hour) * 60 + x.minute) * 60
    + x.second

\* the order of timestamps (neither is NaT): a <= b and a < b
Leq(a, b) == a.year < b.year \/ (a.year = b.year /\ Seconds(a) <= Seconds(b))
Less(a, b) == Leq(a, b) /\ ~Leq(b, a)

\* the permutations of 1..n
Orders(n) ==
    { p \in [1..n -> 1..n] : \A i, j \in 1..n : i # j => p[i] # p[j] }

\* line 117: df.sort_values('Timestamp').  The default kind='quicksort' is not
\* a stable sort: rows come out in non-decreasing timestamp order, NaT rows
\* last in their original order, and rows of equal timestamps in an order the
\* build decides.  The results are the orders p the sort can produce.
SortOrders(rows) ==
    { p \in Orders(Len(rows)) :
        \A i, j \in 1..Len(rows) : i < j =>
            LET a == rows[p[i]].Timestamp
                b == rows[p[j]].Timestamp
            IN IF a.nat THEN b.nat /\ p[i] < p[j]
               ELSE b.nat \/ Leq(a, b) }

\* load_data returned None (lines 120-125)
NoneFrame == [kind |-> "None", cols |-> FALSE, rows |-> << >>, index |-> << >>]

\* lines 108-114: the frame before it is sorted
Prepared(file) ==
    LET raw == read_csv(file)
    IN [ i \in 1..Len(raw) |->
           [raw[i] EXCEPT !.Timestamp = replace_year(to_datetime(raw[i].Timestamp))] ]

\* lines 106-125: the values load_data can return for the store as it is
load_data(file) ==
    IF ~file.exists THEN { NoneFrame }
    ELSE IF \E i \in 1..Len(file.rows) :
                LET t == ReadText(file.rows[i].Timestamp)
                IN t # << NaN >> /\ ~Strptime_ok(t)
    THEN { NoneFrame }
    ELSE LET prepared == Prepared(file)
         IN { [kind |-> "frame", cols |-> TRUE,
               rows |-> [i \in 1..Len(file.rows) |-> prepared[p[i]]],
               index |-> p] : p \in SortOrders(prepared) }

(***************************************************************************)
(* The aggregation functions.                                              *)
(***************************************************************************)

\* df[name] raises KeyError on a frame that has no columns
KeyError == [kind |-> "KeyError"]

SourceIPs(frame) == [i \in 1..Len(frame.rows) |-> frame.rows[i].SourceIP]
Users(frame) == [i \in 1..Len(frame.rows) |-> frame.rows[i].User]

\* Valid without its comparison with the sentinel text
Valid_notna_only(s) == SelectSeq(s, LAMBDA v : v # NaN)

\* s[(s != 'None') & pd.notna(s)]
Valid(s) == SelectSeq(s, LAMBDA v : v # "None" /\ v # NaN)

\* Series.nunique(): the number of distinct values, NaN not counted
nunique(s) == Cardinality({ s[i] : i \in 1..Len(s) } \ { NaN })

\* len(df[df['EventId'].isin(ids)])
CountEvents(frame, ids) ==
    Cardinality({ i \in 1..Len(frame.rows) : frame.rows[i].EventId \in ids })

\* lines 128-141
calculate_statistics(frame) ==
    IF ~frame.cols THEN KeyError
    ELSE [ kind             |-> "stats",
           total_events     |-> Len(frame.rows),
           unique_ips       |-> nunique(Valid(SourceIPs(frame))),
           unique_users     |-> nunique(Valid(Users(frame))),
           failed_attempts  |-> CountEvents(frame, {"E9", "E10"}),
           breakin_attempts |-> CountEvents(frame, {"E27"}) ]

\* the number of elements of s equal to v
Occurrences(s, v) == Cardinality({ i \in 1..Len(s) : s[i] = v })

\* the position of the first element of s equal to v
FirstIndex(s, v) == CHOOSE i \in 1..Len(s) : s[i] = v /\ \A k \in 1..(i - 1) : s[k] # v

\* Series.value_counts(): one entry per distinct value (NaN dropped) with its
\* number of occurrences, sorted by sort_values(ascending=False) with the
\* default kind='quicksort': counts come out non-increasing, and entries of
\* equal counts in an order the build decides.
value_counts(s) ==
    LET keys == { s[i] : i \in 1..Len(s) } \ { NaN }
    IN { [i \in 1..Cardinality(keys) |-> [key |-> k[i], count |-> Occurrences(s, k[i])]] :
           k \in { q \in [1..Cardinality(keys) -> keys] :
                      /\ \A i, j \in DOMAIN q : i # j => q[i] # q[j]
                      /\ \A i, j \in DOMAIN q :
                             i < j => Occurrences(s, q[i]) >= Occurrences(s, q[j]) } }

\* Series.head(n), n >= 0
head(s, n) == SubSeq(s, 1, IF n < Len(s) THEN n ELSE Len(s))

\* lines 144-149: the values get_top_ips(df, n) can return
get_top_ips(frame, n) ==
    IF ~frame.cols THEN { KeyError }
    ELSE { [kind |-> "top", n |-> n, entries |-> head(vc, n)] :
             vc \in value_counts(Valid(SourceIPs(frame))) }

\* floor_hour rounding down to the minute instead of the hour
floor_minute(x) == IF x.nat THEN x ELSE [x EXCEPT !.second = 0]

\* Timestamp.floor('H'); NaT stays NaT
floor_hour(x) == IF x.nat THEN NaT ELSE [x EXCEPT !.minute = 0, !.second = 0]

\* lines 152-157: df_temp.groupby('Hour').size(): one entry per distinct Hour, in
\* ascending order of Hour; rows whose Hour is NaT are in no group
get_temporal_evolution(frame) ==
    IF ~frame.cols THEN KeyError
    ELSE LET Hour == [i \in 1..Len(frame.rows) |-> floor_hour(frame.rows[i].Timestamp)]
             keys == { Hour[i] : i \in 1..Len(frame.rows) } \ { NaT }
             order == CHOOSE q \in [1..Cardinality(keys) -> keys] :
                          \A i, j \in DOMAIN q : i < j => Less(q[i], q[j])
         IN [ kind |-> "hourly",
              entries |-> [i \in 1..Cardinality(keys) |->
                             [Hour |-> order[i], count |-> Occurrences(Hour, order[i])]] ]

\* no call has returned yet
NoFrame == [kind |-> "unset", cols |-> FALSE, rows |-> << >>, index |-> << >>]
NoResult == [kind |-> "unset"]
NoStore == [exists |-> FALSE, rows |-> << >>]
NoFile == [given |-> FALSE, content |-> << >>]
NoCache == [filled |-> FALSE, value |-> NoFrame]
NoSelection == [kind |-> "unset"]

(***************************************************************************)
(* The sidebar filters and the part of a run after df = load_data().       *)
(***************************************************************************)

\* Series.unique(), as the set of its values (NaN is one of them)
unique(s) == { s[i] : i \in 1..Len(s) }

EventIds(frame) == [i \in 1..Len(frame.rows) |-> frame.rows[i].EventId]

\* lines 289 and 345: the values the multiselects offer
available_ips(frame) == unique(SourceIPs(frame)) \ { NaN, "None" }
available_users(frame) == unique(Users(frame)) \ { NaN, "None" }

\* lines 315-318: the slider of the mode "Top N IPs" starts at value=5
TopSliderValue == 5

\* the slider of the mode "Top N IPs" has max_value=len(available_ips) (at most
\* 20) and value=5: st.slider raises when the value is above the maximum
TopSliderRaises(frame) == Cardinality(available_ips(frame)) < TopSliderValue

\* lines 271-281: all EventIds, or the ones ticked in the multiselect
event_selections(frame) == SUBSET unique(EventIds(frame))

\* lines 294-338: every mode (all, multiselect, top N, pattern) gives some of
\* the available addresses
ip_selections(frame) == SUBSET available_ips(frame)

\* lines 347-360: every value of the column, or the ticked users and 'None'
user_selections(frame) ==
    { unique(Users(frame)) } \cup { S \cup { "None" } : S \in SUBSET available_users(frame) }

\* the timestamps of the frame that are not NaT
Dated(frame) ==
    { frame.rows[i].Timestamp : i \in 1..Len(frame.rows) } \ { NaT }

\* lines 367-377: the slider runs from df['Timestamp'].min() to .max(), which
\* skip NaT; its value is a pair inside these bounds
time_ranges(frame) ==
    { r \in Dated(frame) \X Dated(frame) : Leq(r[1], r[2]) }

\* the slider when min_date = max_date, and when both are NaT (no row has a
\* timestamp): whether st.slider raises on these bounds or returns them is
\* left to the streamlit build
SliderMayRaise(frame) ==
    \A a, b \in Dated(frame) : a = b

Raised == [kind |-> "exception"]

\* lines 258-400: the selections the sidebar can come to, and Raised where
\* one of its widgets can raise
Sidebar(frame) ==
    { [kind |-> "selection", selected_events |-> e, selected_ips |-> a,
       selected_users |-> u, time_range |-> r] :
        e \in event_selections(frame), a \in ip_selections(frame),
        u \in user_selections(frame),
        r \in IF Dated(frame) = {} THEN { << NaT, NaT >> } ELSE time_ranges(frame) }
    \cup (IF TopSliderRaises(frame) \/ SliderMayRaise(frame) THEN { Raised } ELSE {})

\* the sidebar as a first run finds it: every check box ticked (lines 268,
\* 292, 347), the slider on the whole period (line 373)
DefaultSidebar(frame) ==
    { [kind |-> "selection", selected_events |-> unique(EventIds(frame)),
       selected_ips |-> available_ips(frame),
       selected_users |-> unique(Users(frame)), time_range |-> r] :
        r \in IF Dated(frame) = {} THEN { << NaT, NaT >> }
              ELSE { q \in time_ranges(frame) :
                       \A t \in Dated(frame) : Leq(q[1], t) /\ Leq(t, q[2]) } }
    \cup (IF SliderMayRaise(frame) THEN { Raised } ELSE {})

\* the address test without its two tests for the sentinel
KeepsAddress_selected_only(ip, ips) == ip \in ips

\* lines 405-409: isin(selected_ips) | (== 'None') | isna
KeepsAddress(ip, ips) == ip \in ips \/ ip = "None" \/ ip = NaN

\* lines 411-412: (Timestamp >= time_range[0]) & (Timestamp <= time_range[1]);
\* a comparison with NaT is False
InRange(t, r) ==
    /\ ~t.nat /\ ~r[1].nat /\ ~r[2].nat
    /\ Leq(r[1], t) /\ Leq(t, r[2])

\* lines 403-413, one row of the boolean mask
Mask(row, sel) ==
    /\ row.EventId \in sel.selected_events
    /\ KeepsAddress(row.SourceIP, sel.selected_ips)
    /\ row.User \in sel.selected_users
    /\ InRange(row.Timestamp, sel.time_range)

\* lines 403-413: df[mask], the rows of the mask in their order, with their labels
apply_filters(frame, sel) ==
    LET kept == SelectSeq([i \in 1..Len(frame.rows) |-> i],
                          LAMBDA i : Mask(frame.rows[i], sel))
    IN [ kind  |-> "frame", cols |-> frame.cols,
         rows  |-> [k \in 1..Len(kept) |-> frame.rows[kept[k]]],
         index |-> [k \in 1..Len(kept) |-> frame.index[kept[k]]] ]

\* line 512: get_top_ips(df_filtered, n=5)
TopShown == 5

\* lines 254-732: what the run comes to after df = load_data(), for the
\* selection sel of the sidebar: the warning of the else branch when the load
\* failed, the exception a widget raised, st.stop() when no row passes the
\* filters, else the dashboard
AfterLoad(frame, sel) ==
    IF frame.kind = "None"
    THEN [page |-> "warning", selection |-> NoSelection, df_filtered |-> NoFrame]
    ELSE IF sel = Raised
    THEN [page |-> "exception", selection |-> NoSelection, df_filtered |-> NoFrame]
    ELSE LET filtered == apply_filters(frame, sel)
         IN [page |-> IF Len(filtered.rows) = 0 THEN "stopped" ELSE "dashboard",
             selection |-> sel, df_filtered |-> filtered]

\* lines 446, 512, 545: the aggregations the dashboard shows
Aggregations(frame) ==
    { [kind |-> "aggregations", stats |-> calculate_statistics(frame),
       top_ips |-> t, hourly |-> get_temporal_evolution(frame)] :
        t \in get_top_ips(frame, TopShown) }

(***************************************************************************)
(* Inputs: log lines built from the message texts of the OpenSSH daemon.   *)
(***************************************************************************)
MaxBodies == 2

\* the line of the scenario of the specification, after its syslog prefix
FailedInvalidAdmin ==
    << "Failed", "password", "for", "invalid", "user", "admin", "from",
       "10.0.0.5", "port", "22", "ssh2" >>

PamFailureRoot ==
    << "pam_unix(sshd:auth):", "authentication", "failure;", "ruser=",
       "rhost=10.0.0.5", "user=root" >>

Bodies ==
    { FailedInvalidAdmin,
      PamFailureRoot,
      << "Connection", "closed", "by", "10.0.0.9" >>,
      << "POSSIBLE", "BREAK-IN", "ATTEMPT!" >>,
      << "possible", "break-in", "attempt" >>,
      << "Invalid", "user", "admin", "from", "10.0.0.5" >>,
      << "input_userauth_request:", "invalid", "user", "admin" >>,
      << "pam_unix(sshd:auth):", "check", "pass;", "user", "unknown" >>,
      << "pam_unix(sshd:auth):", "authentication", "failure;", "ruser=",
         "rhost=10.0.0.5" >>,
      << "Failed", "password", "for", "root", "from", "10.0.0.5" >>,
      << "Failed", "password", "for", "admin", "from", "10.0.0.5" >>,
      << "Too", "many", "authentication", "failures", "for", "root" >>,
      << "PAM", "5", "more", "authentication", "failures;" >>,
      << "PAM", "service(sshd)", "ignoring", "max", "retries;" >>,
      << "Received", "disconnect", "from", "10.0.0.5:" >>,
      << "message", "repeated", "5", "times:" >>,
      << "Accepted", "password", "for", "admin", "from", "10.0.0.5" >>,
      << "Server", "listening", "on", "0.0.0.0" >>,
      << "Failed", "password", "for", "invalid", "user", "null", "from",
         "10.0.0.5" >>,
      << "Failed", "password", "for", "invalid", "user" >> }

Prefixes ==
    { << "Jun", "14", "12:00:01", "host", "sshd[123]:" >>,
      << "Jun", "14", "12:00:01", "host", "SSHD[9]:" >>,
      << "Jun", "14", "12:00:01", "host", "CRON[7]:" >>,
      << >> }

\* the concatenations of at most n message texts
RECURSIVE Messages(_)
Messages(n) ==
    IF n = 0 THEN { << >> }
    ELSE LET shorter == Messages(n - 1)
         IN shorter \cup { m \o b : m \in shorter, b \in Bodies }

Line(lead, toks, trail) == [lead |-> lead, toks |-> toks, trail |-> trail]

\* leading / trailing white space of a line: none, leading, trailing
Margins == { <<FALSE, FALSE>>, <<TRUE, FALSE>>, <<FALSE, TRUE>> }

LineInputs ==
    { Line(w[1], p \o m, w[2]) : w \in Margins, p \in Prefixes,
                                 m \in Messages(MaxBodies) }


(***************************************************************************)
(* SpecLine: parse_ssh_log applied to a text of one line.                  *)
(***************************************************************************)
InitLine ==
    /\ log_content \in { << ln >> : ln \in LineInputs }
    /\ uploaded_file = NoFile
    /\ df_parsed = NoFrame
    /\ csv = NoStore
    /\ cache = NoCache
    /\ df = NoFrame
    /\ result = NoResult
    /\ selection = NoSelection
    /\ df_filtered = NoFrame
    /\ page = "unset"
    /\ noneIsNA = TRUE
    /\ pc = "start"

ParseOneLine ==
    /\ pc = "start"
    /\ df_parsed' = parse_ssh_log(log_content)
    /\ pc' = "parsed"
    /\ UNCHANGED <<uploaded_file, log_content, csv, cache, df, result, selection, df_filtered, page,
                 noneIsNA>>

NextLine == ParseOneLine

SpecLine == InitLine /\ [][NextLine]_vars

\* the line of a one-line text, and the Event parsed from it
TheLine == log_content[1]
TheEvent == df_parsed.rows[1]
LineParsed == pc = "parsed" /\ Len(log_content) = 1 /\ Len(df_parsed.rows) = 1

MatchesRule(id, toks) ==
    \E k \in 1..Len(patterns) : patterns[k].id = id /\ Search(patterns[k].pat, toks)

\* C1 (as claimed): a line that matches both the generic pam_unix
\* authentication failure pattern (E19) and the root-specific one (E20), and no
\* rule listed before them, is classified E20.
C1_SpecificRuleWins ==
    (/\ LineParsed
     /\ MatchesRule("E19", TheLine.toks)
     /\ MatchesRule("E20", TheLine.toks)
     /\ \A id \in {"E27", "E13", "E12", "E21"} : ~MatchesRule(id, TheLine.toks))
    => TheEvent.EventId = "E20"

\* the text Failed password for invalid user X from, in any letter case
FailedInvalidUserFrom(toks) ==
    \E i \in 1..(Len(toks) - 6) :
        /\ EndsWith(Fold(toks[i]), "failed")
        /\ Fold(toks[i + 1]) = "password"
        /\ Fold(toks[i + 2]) = "for"
        /\ Fold(toks[i + 3]) = "invalid"
        /\ Fold(toks[i + 4]) = "user"
        /\ IsWord(toks[i + 5])
        /\ StartsWith(Fold(toks[i + 6]), "from")

\* the text POSSIBLE BREAK-IN ATTEMPT, in any letter case
HasBreakInText(toks) ==
    \E i \in 1..(Len(toks) - 2) :
        /\ EndsWith(Fold(toks[i]), "possible")
        /\ Fold(toks[i + 1]) = "break-in"
        /\ StartsWith(Fold(toks[i + 2]), "attempt")

ScenarioLine ==
    Line(FALSE, << "Jun", "14", "12:00:01", "host", "sshd[123]:" >>
                \o FailedInvalidAdmin, FALSE)

\* C2 (as claimed): the scenario line yields one Event with code E10, address
\* 10.0.0.5 and user admin; any parsed line holding Failed password for invalid
\* user X from A and no break-in text is classified E10.
C2_FailedInvalidUserIsE10 ==
    /\ (pc = "parsed" /\ log_content = << ScenarioLine >>)
        => /\ Len(df_parsed.rows) = 1
           /\ TheEvent.EventId = "E10"
           /\ TheEvent.SourceIP = "10.0.0.5"
           /\ TheEvent.User = "admin"
    /\ (LineParsed /\ FailedInvalidUserFrom(TheLine.toks)
                   /\ ~HasBreakInText(TheLine.toks))
        => TheEvent.EventId = "E10"

\* C3: every parsed line that holds POSSIBLE BREAK-IN ATTEMPT in any letter case
\* is classified E27, whatever other rule patterns it matches.
C3_BreakInFirst ==
    (LineParsed /\ HasBreakInText(TheLine.toks)) => TheEvent.EventId = "E27"

\* a lower-case break-in text on a line that also matches the E13 rule
C3_Witness ==
    /\ LineParsed
    /\ HasBreakInText(TheLine.toks)
    /\ ~\E i \in 1..Len(TheLine.toks) : TheLine.toks[i] = "POSSIBLE"
    /\ MatchesRule("E13", TheLine.toks)
    /\ TheEvent.EventId = "E27"

\* C12 (as claimed): the raw_message of the Event equals the input line
\* character for character, its leading and trailing white space included.
C12_RawMessageVerbatim ==
    LineParsed => TheEvent.Raw_Message = TheLine

\* the event codes of the rules, and the fallback
Codes ==
    { "E27", "E13", "E12", "E21", "E19", "E20", "E10", "E9", "E2", "E5",
      "E17", "E18", "E24", "E14", "E0" }

\* the atoms of the line that hold a dotted quad
QuadAtoms(toks) == { i \in 1..Len(toks) : IpIn(toks[i]) # "" }

\* the user patterns that match the line
MatchingUserPatterns(toks) == { k \in 1..Len(user_patterns) : UserCapture(k, toks) # "" }

Least(S) == CHOOSE x \in S : \A y \in S : x <= y

\* the line starts with a month name, a day and a clock time
StartsWithStamp(ln) ==
    /\ ~ln.lead
    /\ Len(ln.toks) >= 3
    /\ IsAlpha3(ln.toks[1]) /\ IsDay(ln.toks[2]) /\ IsClock(ln.toks[3])

\* C13: parsing a line always returns; the Event of a parsed line has one
\* event code, a rule code or E0, and E0 exactly when no rule matches; its
\* address is the first dotted quad of the line, or None when there is none;
\* its user is the capture of the first user pattern that matches, or None
\* when none does; its timestamp is the leading month, day and time of the
\* line, or None; no field is empty or missing.
C13_FieldsTotal ==
    /\ pc = "parsed" => (df_parsed.kind = "frame" /\ Len(df_parsed.rows) <= 1)
    /\ LineParsed =>
        LET quads == QuadAtoms(TheLine.toks)
            matching == MatchingUserPatterns(TheLine.toks)
        IN
        /\ TheEvent.EventId \in Codes
        /\ TheEvent.EventId = "E0" <=> \A id \in Codes : ~MatchesRule(id, TheLine.toks)
        /\ TheEvent.EventId # "E0" => MatchesRule(TheEvent.EventId, TheLine.toks)
        /\ IF quads = {} THEN TheEvent.SourceIP = "None"
           ELSE TheEvent.SourceIP = IpIn(TheLine.toks[Least(quads)])
        /\ IF matching = {} THEN TheEvent.User = "None"
           ELSE TheEvent.User = UserCapture(Least(matching), TheLine.toks)
        /\ IF StartsWithStamp(TheLine) THEN TheEvent.Timestamp = SubSeq(TheLine.toks, 1, 3)
           ELSE TheEvent.Timestamp = << "None" >>
        /\ TheEvent.EventId \notin { "", NaN }
        /\ TheEvent.SourceIP \notin { "", NaN }
        /\ TheEvent.User \notin { "", NaN }
        /\ TheEvent.Timestamp # << >>

\* a line with two different dotted quads and two matching user patterns
C13_Witness ==
    /\ LineParsed
    /\ Cardinality({ IpIn(TheLine.toks[i]) : i \in QuadAtoms(TheLine.toks) }) = 2
    /\ Cardinality(MatchingUserPatterns(TheLine.toks)) >= 2
    /\ TheEvent.SourceIP = "10.0.0.9"
    /\ TheEvent.User = "admin"
    /\ TheEvent.Timestamp # << "None" >>

(***************************************************************************)
(* SpecLoad: load_data applied to a persisted store, and the aggregation   *)
(* functions applied to the EventSet it returns.                           *)
(***************************************************************************)
MaxRows == 3
MaxTop == 2

StoredRow(ts, id, ip, usr) ==
    [Timestamp |-> ts, EventId |-> id, SourceIP |-> ip, User |-> usr,
     Raw_Message |-> [lead |-> FALSE, toks |-> << "sshd[123]:", id >>, trail |-> FALSE]]

StoreRows ==
    { StoredRow(<< "Jun", "14", "10:15:00" >>, "E10", "10.0.0.5", "admin"),
      StoredRow(<< "Jun", "14", "10:45:00" >>, "E9", "10.0.0.9", "root"),
      StoredRow(<< "Jun", "14", "11:05:00" >>, "E27", "10.0.0.5", "None"),
      StoredRow(<< "Jun", "14", "10:15:00" >>, "E2", "10.0.0.9", "None"),
      StoredRow(<< "Jun", "14", "11:05:00" >>, "E13", "0.0.0.0", "null"),
      StoredRow(<< "Jun", "14", "10:45:00" >>, "E0", "None", "admin"),
      StoredRow(<< "None" >>, "E0", "None", "None"),
      StoredRow(<< "Feb", "29", "12:00:01" >>, "E2", "10.0.0.9", "root") }

RECURSIVE SeqsUpTo(_, _)
SeqsUpTo(S, n) ==
    IF n = 0 THEN { << >> }
    ELSE LET shorter == SeqsUpTo(S, n - 1)
         IN shorter \cup { Append(q, x) : q \in shorter, x \in S }

StoreInputs ==
    { NoStore } \cup { [exists |-> TRUE, rows |-> r] : r \in SeqsUpTo(StoreRows, MaxRows) }

InitLoad ==
    /\ uploaded_file = NoFile
    /\ log_content = << >>
    /\ df_parsed = NoFrame
    /\ csv \in StoreInputs
    /\ cache = NoCache
    /\ df = NoFrame
    /\ result = NoResult
    /\ selection = NoSelection
    /\ df_filtered = NoFrame
    /\ page = "unset"
    /\ noneIsNA \in BOOLEAN
    /\ pc = "start"

\* df = load_data()
Load ==
    /\ pc = "start"
    /\ df' \in load_data(csv)
    /\ pc' = IF df'.kind = "None" THEN "load_failed" ELSE "loaded"
    /\ UNCHANGED <<uploaded_file, log_content, df_parsed, csv, cache, result, selection, df_filtered, page,
                 noneIsNA>>

Stats ==
    /\ pc = "loaded" /\ result.kind = "unset"
    /\ result' = calculate_statistics(df)
    /\ UNCHANGED <<uploaded_file, log_content, df_parsed, csv, cache, df, selection, df_filtered, page,
                 noneIsNA, pc>>

TopIps ==
    /\ pc = "loaded" /\ result.kind = "unset"
    /\ \E n \in 0..MaxTop : result' \in get_top_ips(df, n)
    /\ UNCHANGED <<uploaded_file, log_content, df_parsed, csv, cache, df, selection, df_filtered, page,
                 noneIsNA, pc>>

Temporal ==
    /\ pc = "loaded" /\ result.kind = "unset"
    /\ result' = get_temporal_evolution(df)
    /\ UNCHANGED <<uploaded_file, log_content, df_parsed, csv, cache, df, selection, df_filtered, page,
                 noneIsNA, pc>>

NextLoad == Load \/ Stats \/ TopIps \/ Temporal

SpecLoad == InitLoad /\ [][NextLoad]_vars

\* the addresses of the loaded EventSet, and the sentinel in its two forms
Addresses == SourceIPs(df)
Absent == { "None", NaN }
TopCalled == pc = "loaded" /\ result.kind = "top"

\* C6 without its last part: at most n entries, none the sentinel, each with
\* the number of events of its address, counts non-increasing, and no omitted
\* address with a higher count than a returned one.
C6_TopIpsCounts ==
    TopCalled =>
        LET e == result.entries
            returned == { e[i].key : i \in 1..Len(e) }
            omitted == ({ Addresses[i] : i \in 1..Len(Addresses) } \ Absent) \ returned
        IN /\ Len(e) <= result.n
           /\ \A i \in 1..Len(e) : e[i].key \notin Absent
           /\ \A i \in 1..Len(e) : e[i].count = Occurrences(Addresses, e[i].key)
           /\ \A i, j \in 1..Len(e) : i < j => e[i].count >= e[j].count
           /\ \A o \in omitted, r \in returned :
                  Occurrences(Addresses, o) <= Occurrences(Addresses, r)

C8_DistinctExcludeSentinel ==
    (pc = "loaded" /\ result.kind = "stats") =>
        /\ result.unique_ips =
               Cardinality({ df.rows[i].SourceIP : i \in 1..Len(df.rows) } \ Absent)
        /\ result.unique_users =
               Cardinality({ df.rows[i].User : i \in 1..Len(df.rows) } \ Absent)
        /\ result.total_events = Len(df.rows)

\* statistics of an EventSet that holds the sentinel as the text None and as
\* NaN next to a real address and a real user
C8_Witness ==
    /\ pc = "loaded" /\ result.kind = "stats"
    /\ \E i, j, k \in 1..Len(df.rows) :
           /\ df.rows[i].SourceIP = "None"
           /\ df.rows[j].User = NaN
           /\ df.rows[k].SourceIP \notin Absent /\ df.rows[k].User \notin Absent
    /\ result.total_events = 3
    /\ result.unique_ips = 2
    /\ result.unique_users = 1

\* the timestamp t lies in the hour that starts at key
InHour(t, key) ==
    /\ ~t.nat
    /\ t.year = key.year
    /\ Seconds(key) <= Seconds(t)
    /\ Seconds(t) < Seconds(key) + 3600

RECURSIVE SumCounts(_)
SumCounts(e) == IF e = << >> THEN 0 ELSE Head(e).count + SumCounts(Tail(e))

\* one entry per hour that holds an event and none for the other hours, each
\* keyed by the start of its hour and counting the events of that hour
HourlyBuckets ==
    LET e == result.entries
    IN /\ \A i \in 1..Len(e) :
              /\ ~e[i].Hour.nat /\ e[i].Hour.minute = 0 /\ e[i].Hour.second = 0
              /\ e[i].count >= 1
              /\ e[i].count = Cardinality({ r \in 1..Len(df.rows) :
                                              InHour(df.rows[r].Timestamp, e[i].Hour) })
       /\ \A i, j \in 1..Len(e) : i # j => e[i].Hour # e[j].Hour
       /\ \A r \in 1..Len(df.rows) :
              ~df.rows[r].Timestamp.nat
              => \E i \in 1..Len(e) : InHour(df.rows[r].Timestamp, e[i].Hour)

At(h, m) == [nat |-> FALSE, year |-> ReferenceYear, month |-> 6, day |-> 14,
             hour |-> h, minute |-> m, second |-> 0]

\* events at 10:15, 10:45 and 11:05 give 10:00 with 2 and 11:00 with 1
HourlyExample ==
    { df.rows[r].Timestamp : r \in 1..Len(df.rows) } = { At(10, 15), At(10, 45), At(11, 5) }
    /\ Len(df.rows) = 3
    => result.entries = << [Hour |-> At(10, 0), count |-> 2],
                           [Hour |-> At(11, 0), count |-> 1] >>

TemporalCalled == pc = "loaded" /\ result.kind = "hourly"

LoadedSorted ==
    pc = "loaded" =>
        /\ Len(df.rows) = Len(csv.rows)
        /\ { df.index[i] : i \in 1..Len(df.index) } = 1..Len(csv.rows)
        /\ \A i \in 1..Len(df.rows) :
              /\ df.rows[i].EventId = read_csv(csv)[df.index[i]].EventId
              /\ df.rows[i].SourceIP = read_csv(csv)[df.index[i]].SourceIP
              /\ df.rows[i].User = read_csv(csv)[df.index[i]].User
              /\ df.rows[i].Raw_Message = read_csv(csv)[df.index[i]].Raw_Message
              /\ ~df.rows[i].Timestamp.nat => df.rows[i].Timestamp.year = 2024
        /\ \A i, j \in 1..Len(df.rows) :
              (i < j /\ ~df.rows[i].Timestamp.nat /\ ~df.rows[j].Timestamp.nat)
              => Leq(df.rows[i].Timestamp, df.rows[j].Timestamp)

MaxLines == 3

Stamp == << "Jun", "14", "12:00:01", "host" >>

\* the second scenario line of the specification
ClosedLine ==
    Line(FALSE, << "Jun", "14", "12:00:02", "host", "sshd[124]:",
                   "Connection", "closed", "by", "10.0.0.9" >>, FALSE)

\* a line of another daemon
CronLine == Line(FALSE, Stamp \o << "CRON[7]:", "Server", "listening", "on", "0.0.0.0" >>, FALSE)

\* the marker in upper case
UpperLine == Line(FALSE, Stamp \o << "SSHD[9]:", "POSSIBLE", "BREAK-IN", "ATTEMPT!" >>, FALSE)

\* a line that starts with white space
IndentedLine ==
    Line(TRUE, Stamp \o << "sshd[123]:", "Failed", "password", "for", "root",
                           "from", "10.0.0.5" >>, FALSE)

\* 29 February, and a user named null
LeapDayLine ==
    Line(FALSE, << "Feb", "29", "12:00:01", "host", "sshd[123]:",
                   "Invalid", "user", "null", "from", "10.0.0.5" >>, FALSE)

EmptyLine == Line(FALSE, << >>, FALSE)
BlankLine == Line(TRUE, << >>, FALSE)

ParseLines ==
    { ScenarioLine, ClosedLine, CronLine, UpperLine, IndentedLine, LeapDayLine,
      EmptyLine, BlankLine }

\* split gives at least one line, the empty one for the empty text
TextsOf(lines, n) == SeqsUpTo(lines, n) \ { << >> }

InitParse ==
    /\ uploaded_file = NoFile
    /\ log_content \in TextsOf(ParseLines, MaxLines)
    /\ df_parsed = NoFrame
    /\ csv = NoStore
    /\ cache = NoCache
    /\ df = NoFrame
    /\ result = NoResult
    /\ selection = NoSelection
    /\ df_filtered = NoFrame
    /\ page = "unset"
    /\ noneIsNA = TRUE
    /\ pc = "start"

\* df_parsed = parse_ssh_log(log_content)
Parse ==
    /\ pc = "start"
    /\ df_parsed' = parse_ssh_log(log_content)
    /\ pc' = "parsed"
    /\ UNCHANGED <<uploaded_file, log_content, csv, cache, df, result, selection, df_filtered, page,
                 noneIsNA>>

StatsParsed ==
    /\ pc = "parsed" /\ result.kind = "unset"
    /\ result' = calculate_statistics(df_parsed)
    /\ UNCHANGED <<uploaded_file, log_content, df_parsed, csv, cache, df, selection, df_filtered, page,
                 noneIsNA, pc>>

TopIpsParsed ==
    /\ pc = "parsed" /\ result.kind = "unset"
    /\ \E n \in 0..MaxTop : result' \in get_top_ips(df_parsed, n)
    /\ UNCHANGED <<uploaded_file, log_content, df_parsed, csv, cache, df, selection, df_filtered, page,
                 noneIsNA, pc>>

NextParse == Parse \/ StatsParsed \/ TopIpsParsed

SpecParse == InitParse /\ [][NextParse]_vars

\* the line is not blank and holds the daemon marker in some letter case
Relevant(ln) ==
    /\ ln.toks # << >>
    /\ \E i \in 1..Len(ln.toks) :
           \E a \in { "sshd[123]:", "sshd[124]:", "SSHD[9]:", "sshd:",
                       "pam_unix(sshd:auth):", "service(sshd)" } : ln.toks[i] = a

RelevantLines == SelectSeq(log_content, Relevant)

\* C4: the Events of parse_ssh_log are, one for one and in input order, the
\* lines that are not blank and hold the marker sshd in some letter case; no
\* other line gives an Event, and a text without such a line gives an empty
\* EventSet, not a failure.
C4_OneEventPerRelevantLine ==
    pc = "parsed" =>
        /\ df_parsed.kind = "frame"
        /\ Len(df_parsed.rows) = Len(RelevantLines)
        /\ \A i \in 1..Len(RelevantLines) :
               df_parsed.rows[i].Raw_Message.toks = RelevantLines[i].toks

\* a text of a cron line, the upper-case marker line and the scenario line gives
\* the Events of the last two, in that order
C4_Witness ==
    /\ pc = "parsed"
    /\ log_content = << CronLine, UpperLine, ScenarioLine >>
    /\ Len(df_parsed.rows) = 2
    /\ df_parsed.rows[1].EventId = "E27"
    /\ df_parsed.rows[2].User = "admin"

\* C7 (as claimed): calculate_statistics of an EventSet of size 0, the empty
\* result of parse_ssh_log included, returns five counts of 0 and does not fail.
C7_EmptyStatsAllZero ==
    (pc = "parsed" /\ Len(df_parsed.rows) = 0 /\ result.kind \in {"stats", "KeyError"})
    => /\ result.kind = "stats"
       /\ result.total_events = 0
       /\ result.unique_ips = 0
       /\ result.unique_users = 0
       /\ result.failed_attempts = 0
       /\ result.breakin_attempts = 0

(***************************************************************************)
(* Spec: the dashboard.  Every interaction of the user runs the script     *)
(* from its top: the upload section (lines 189-247), then load_data        *)
(* through its st.cache_data entry (line 252).  st.rerun() ends the run    *)
(* and starts the next one.                                                *)
(***************************************************************************)
MaxUploadLines == 2

UploadLines == { ClosedLine, CronLine, LeapDayLine }

\* a store left by an earlier session
ShippedStore ==
    [exists |-> TRUE,
     rows |-> << StoredRow(<< "Jun", "14", "10:15:00" >>, "E9", "10.0.0.9", "root") >>]

Init ==
    /\ uploaded_file = NoFile
    /\ log_content = << >>
    /\ df_parsed = NoFrame
    /\ csv \in { NoStore, ShippedStore }
    /\ cache = NoCache
    /\ df = NoFrame
    /\ result = NoResult
    /\ selection = NoSelection
    /\ df_filtered = NoFrame
    /\ page = "unset"
    /\ noneIsNA \in BOOLEAN
    /\ pc = "start"

\* line 252, df = load_data() under @st.cache_data: the stored value when the
\* entry is filled, else the value of a call, which fills the entry
CachedLoad(entry, file) ==
    IF entry.filled THEN { [cache |-> entry, df |-> entry.value] }
    ELSE { [cache |-> [filled |-> TRUE, value |-> v], df |-> v] : v \in load_data(file) }

\* the rest of a run after the upload section (lines 252-732), the sidebar
\* widgets at their initial values
LoadAndShow(entry, file) ==
    \E out \in CachedLoad(entry, file) :
        \E sel \in DefaultSidebar(out.df) :
            LET after == AfterLoad(out.df, sel)
            IN /\ cache' = out.cache
               /\ df' = out.df
               /\ selection' = after.selection
               /\ df_filtered' = after.df_filtered
               /\ page' = after.page
               /\ pc' = "shown"

\* the guard of the save without its test
HasEvents_always(frame) == TRUE

\* line 219: len(df_parsed) > 0
HasEvents(frame) == Len(frame.rows) > 0

\* the cache clear that clears nothing
clear_nothing(entry) == entry

\* line 224: st.cache_data.clear()
clear(entry) == NoCache

\* a run in which no button is pressed: the first one, the one st.rerun()
\* starts, or one a filter widget triggers
Run ==
    /\ pc \in { "start", "rerun", "shown" }
    /\ log_content' = IF uploaded_file.given THEN uploaded_file.content ELSE log_content
    /\ result' = NoResult
    /\ LoadAndShow(cache, csv)
    /\ UNCHANGED <<uploaded_file, df_parsed, csv, noneIsNA>>

\* the user puts a file in the uploader (lines 195-209)
ChooseFile ==
    /\ pc = "shown"
    /\ \E text \in TextsOf(UploadLines, MaxUploadLines) :
           /\ uploaded_file' = [given |-> TRUE, content |-> text]
           /\ log_content' = text
    /\ result' = NoResult
    /\ LoadAndShow(cache, csv)
    /\ UNCHANGED <<df_parsed, csv, noneIsNA>>

\* the button "Parser et sauvegarder" (lines 214-243)
ParseAndSave ==
    /\ pc = "shown"
    /\ uploaded_file.given
    /\ log_content' = uploaded_file.content
    /\ df_parsed' = parse_ssh_log(uploaded_file.content)
    /\ IF HasEvents(df_parsed')
       THEN /\ csv' = to_csv(df_parsed')
            /\ cache' = clear(cache)
            /\ result' = [kind |-> "success"]
            /\ pc' = "rerun"
            /\ UNCHANGED <<df, selection, df_filtered, page>>
       ELSE /\ result' = [kind |-> "error"]
            /\ LoadAndShow(cache, csv)
            /\ UNCHANGED csv
    /\ UNCHANGED <<uploaded_file, noneIsNA>>

\* the button "Annuler" (lines 245-247)
Cancel ==
    /\ pc = "shown"
    /\ uploaded_file.given
    /\ log_content' = uploaded_file.content
    /\ pc' = "rerun"
    /\ UNCHANGED <<uploaded_file, df_parsed, csv, cache, df, result,
                   selection, df_filtered, page, noneIsNA>>

Next == Run \/ ChooseFile \/ ParseAndSave \/ Cancel

Spec == Init /\ [][Next]_vars

\* the (event_code, source_address, user) triples of an EventSet, each with
\* the number of Events that carry it
Triples(frame) ==
    [i \in 1..Len(frame.rows) |->
        << frame.rows[i].EventId, frame.rows[i].SourceIP, frame.rows[i].User >>]

SameTriples(f, g) ==
    /\ Len(f.rows) = Len(g.rows)
    /\ \A i \in 1..Len(f.rows) :
           Occurrences(Triples(f), Triples(f)[i]) = Occurrences(Triples(g), Triples(f)[i])

\* the run that follows a save has loaded the store the save wrote
LoadedAfterSave ==
    /\ pc = "shown"
    /\ df_parsed.kind = "frame"
    /\ Len(df_parsed.rows) > 0
    /\ csv = to_csv(df_parsed)

\* C5 (as claimed): when parsing gives at least one Event, saving the parsed
\* EventSet and loading it returns an EventSet with the same collection of
\* (event_code, source_address, user) triples, sentinels included; the load
\* does not fail and turns no sentinel into another value.
C5_RoundTrip ==
    LoadedAfterSave => (df.kind = "frame" /\ SameTriples(df, df_parsed))

\* a load that fails gives None, and the run then shows the warning of the
\* else branch and no dashboard; a missing store always fails
FailedLoadShowsWarning ==
    pc = "shown" =>
        /\ df.kind \in { "None", "frame" }
        /\ ~csv.exists => df.kind = "None"
        /\ df.kind = "None" <=> page = "warning"
        /\ df.kind = "None" => (df_filtered = NoFrame /\ selection = NoSelection)

\* C11 (as claimed): after a load that failed, a save of an upload that parsed
\* to at least one Event is followed by a load that returns the uploaded
\* EventSet, not a failure.
C11_UploadReplacesFailure ==
    [][ (pc = "rerun" /\ result.kind = "success" /\ df.kind = "None")
        => (df'.kind = "frame" /\ Len(df'.rows) = Len(df_parsed.rows)) ]_vars

\* C14: a step changes the store or empties the load cache only when it has
\* parsed the uploaded text to at least one Event, and it then does both; a
\* step that parsed the upload to zero Events leaves the store and the cached
\* load result as they were and reports an error.
C14_BadUploadKeepsStore ==
    [][ /\ (csv' # csv \/ (cache.filled /\ ~cache'.filled))
            => /\ Len(df_parsed'.rows) > 0
               /\ df_parsed' = parse_ssh_log(uploaded_file.content)
               /\ csv' = to_csv(df_parsed')
               /\ ~cache'.filled
        /\ (df_parsed' # df_parsed /\ Len(df_parsed'.rows) = 0)
            => /\ csv' = csv
               /\ cache' = cache
               /\ result'.kind = "error" ]_vars

\* an upload without any relevant line was refused and the store of the
\* earlier session is still there and still loaded
C14_Witness ==
    /\ pc = "shown"
    /\ uploaded_file.given
    /\ df_parsed.kind = "frame" /\ Len(df_parsed.rows) = 0
    /\ result.kind = "error"
    /\ csv = ShippedStore
    /\ cache.filled /\ cache.value.kind = "frame"
    /\ df = cache.value

\* C15: the cached value of load_data, and the value the run got from
\* load_data, is one a fresh load of the store as it is now returns.
C15_CacheCoherent ==
    /\ cache.filled => cache.value \in load_data(csv)
    /\ pc = "shown" => (cache.filled /\ df = cache.value /\ df \in load_data(csv))

\* the run after the save of a two-line upload has loaded both Events, where
\* the earlier load had another result
C15_Witness ==
    /\ pc = "shown"
    /\ csv # ShippedStore
    /\ Len(df_parsed.rows) = 2
    /\ csv = to_csv(df_parsed)
    /\ df.kind = "frame" /\ Len(df.rows) = 2
    /\ cache.filled

(***************************************************************************)
(* The filters: a store is loaded, the sidebar comes to a selection, the   *)
(* filters are applied and, past the guard of lines 419-430, the           *)
(* aggregations are computed on the filtered EventSet.                     *)
(***************************************************************************)
MaxFilterRows == 2

FilterRows ==
    { StoredRow(<< "Jun", "14", "10:15:00" >>, "E10", "10.0.0.5", "admin"),
      StoredRow(<< "Jun", "14", "10:45:00" >>, "E0", "None", "admin"),
      StoredRow(<< "Jun", "14", "11:05:00" >>, "E27", "10.0.0.9", "None"),
      StoredRow(<< "None" >>, "E0", "None", "None") }

FilterStores ==
    { [exists |-> TRUE, rows |-> r] : r \in SeqsUpTo(FilterRows, MaxFilterRows) }

InitFilter ==
    /\ uploaded_file = NoFile
    /\ log_content = << >>
    /\ df_parsed = NoFrame
    /\ csv \in FilterStores
    /\ cache = NoCache
    /\ df = NoFrame
    /\ result = NoResult
    /\ selection = NoSelection
    /\ df_filtered = NoFrame
    /\ page = "unset"
    /\ noneIsNA \in BOOLEAN
    /\ pc = "start"

\* lines 254-430: the sidebar, the filters and the guard
Filter ==
    /\ pc \in { "loaded", "load_failed" }
    /\ \E sel \in Sidebar(df) :
           LET after == AfterLoad(df, sel)
           IN /\ selection' = after.selection
              /\ df_filtered' = after.df_filtered
              /\ page' = after.page
    /\ pc' = "filtered"
    /\ UNCHANGED <<uploaded_file, log_content, df_parsed, csv, cache, df, result, noneIsNA>>

\* lines 446-545: the aggregations of the dashboard, which run when the run
\* was not stopped before
Show ==
    /\ pc = "filtered"
    /\ page = "dashboard"
    /\ result' \in Aggregations(df_filtered)
    /\ pc' = "done"
    /\ UNCHANGED <<uploaded_file, log_content, df_parsed, csv, cache, df,
                   selection, df_filtered, page, noneIsNA>>

NextFilter == Load \/ Filter \/ Show

SpecFilter == InitFilter /\ [][NextFilter]_vars

\* the rows of a frame, each with its label
Labelled(frame) ==
    [i \in 1..Len(frame.rows) |-> << frame.index[i], frame.rows[i] >>]

\* a is b with some of its elements left out
RECURSIVE IsSubsequence(_, _)
IsSubsequence(a, b) ==
    IF a = << >> THEN TRUE
    ELSE IF b = << >> THEN FALSE
    ELSE IF Head(a) = Head(b) THEN IsSubsequence(Tail(a), Tail(b))
    ELSE IsSubsequence(a, Tail(b))

\* the row passes the event-type, user and time-range filters
PassesOtherFilters(row) ==
    /\ row.EventId \in selection.selected_events
    /\ row.User \in selection.selected_users
    /\ ~row.Timestamp.nat
    /\ Leq(selection.time_range[1], row.Timestamp)
    /\ Leq(row.Timestamp, selection.time_range[2])

Filtered == pc \in { "filtered", "done" } /\ selection.kind = "selection"

\* C16: for every selection of the sidebar the filtered EventSet is the loaded
\* one with some Events left out, in the same order; an Event whose address is
\* the sentinel (the text None or NaN) and that passes the event-type, user and
\* time-range filters is in it, whatever addresses are selected; the
\* aggregations are computed only on a filtered EventSet that is not empty.
C16_FilterKeepsSentinel ==
    /\ Filtered =>
        /\ IsSubsequence(Labelled(df_filtered), Labelled(df))
        /\ \A i \in 1..Len(df.rows) :
               (df.rows[i].SourceIP \in Absent /\ PassesOtherFilters(df.rows[i]))
               => \E k \in 1..Len(df_filtered.rows) :
                      Labelled(df_filtered)[k] = Labelled(df)[i]
        /\ page = "stopped" <=> Len(df_filtered.rows) = 0
    /\ (pc = "done" \/ result.kind = "aggregations") =>
        /\ Filtered
        /\ Len(df_filtered.rows) > 0
        /\ result.stats.total_events = Len(df_filtered.rows)

\* no address is selected: of the two loaded Events the one with an address is
\* filtered out, the one without is kept and aggregated
C16_Witness ==
    /\ pc = "done"
    /\ selection.kind = "selection"
    /\ selection.selected_ips = {}
    /\ Len(df.rows) = 2
    /\ Len(df_filtered.rows) = 1
    /\ df_filtered.rows[1].SourceIP \in Absent
    /\ \E i \in 1..2 : df.rows[i].SourceIP \notin Absent
    /\ result.stats.unique_ips = 0

====
